---- MODULE Spec2Model ----
(***************************************************************************)
(* Model of detox/src/client/Client.js: the control-channel client of the  *)
(* test runner.  The Client's fields, its async methods (split at their    *)
(* await points), the crash listener, the slow-invocation watchdog and the *)
(* diagnostics dump are translated from Client.js.  AsyncWebSocket, the    *)
(* action catalogue and errorUtils are the Client's collaborators and are  *)
(* modelled by their interface (transport: send / reply by correlation id, *)
(* rejectAll, resetInFlightPromises, isOpen, open, close).                 *)
(*                                                                         *)
(* JavaScript is single threaded: an event handler (a reply, a crash       *)
(* notice, a timer) and all promise continuations it triggers run to       *)
(* completion before the next event, so each action below is one event     *)
(* together with the continuations of every promise it settles.            *)
(*                                                                         *)
(* Spec is the client driven through its request/response path and crash  *)
(* polling; SpecEvents adds the non-responsiveness listener and notices   *)
(* and leaves crash polling out.                                           *)
(***************************************************************************)
EXTENDS Integers, Sequences, FiniteSets, TLC

\* ---------------------------------------------------------------- bounds
\* Number of client method calls and watchdog callbacks in one behaviour.
MaxCalls == 4
\* Invocation payloads are 1..MaxValue.
MaxValue == 1

\* ------------------------------------------------------------- constants
None == "none"
CrashDetails == {"crashA", "crashB"}
Values == 1..MaxValue
OtherTypes == {"shake"}
ProducerModes == {"value", "producerReturns", "producerThrows"}
ReplyKinds == {"ok", "error"}
NonresponsiveParams == {"threadDump"}

VARIABLES
  isConnected,                  \* this.isConnected
  pandingAppCrash,              \* this.pandingAppCrash (None = undefined)
  successfulTestRun,            \* this.successfulTestRun
  slowInvocationStatusHandler,  \* this.slowInvocationStatusHandler (0 = null)
  slowInvocationTimeout,        \* this.slowInvocationTimeout (0 = not configured)
  wsState,                      \* the channel: "none", "opening", "open", "closed"
  inFlightPromises,             \* this.ws.inFlightPromises: id -> [message, owner]
  messageIdCounter,             \* next correlation id handed to a new action
  wire,                         \* requests the app received and has not answered
  timers,                       \* scheduled setTimeout handles
  timerOwner,                   \* handle -> the execute() call whose watchdog it is
  timerCounter,                 \* last handle returned by setTimeout
  calls,                        \* the async calls made so far, in call order
  crashReturned,                \* value returned by the last getPendingCrashAndReset()
  crashSinceGet,                \* history: detail of the last crash notice delivered
                                \* since the last getPendingCrashAndReset(), or None
  crashExpected,                \* history: crashSinceGet at the last
                                \* getPendingCrashAndReset() call
  lateStatusQueries,            \* history: the execute() calls for which the watchdog
                                \* sent a status query after they had settled
  warned,                       \* the requests listed by the last log.warn of a dump
  firedWhileClosed,             \* history: a watchdog timer has fired with the
                                \* channel closed
  nonresponsivenessListener,    \* a listener for AppNonresponsive is installed
  nonresponsiveReported         \* params the client's callback was last called
                                \* with (None = never called)

vars == <<isConnected, pandingAppCrash, successfulTestRun, slowInvocationStatusHandler,
          slowInvocationTimeout, wsState, inFlightPromises, messageIdCounter, wire,
          timers, timerOwner, timerCounter, calls, crashReturned, crashSinceGet,
          crashExpected, lateStatusQueries, warned, firedWhileClosed,
          nonresponsivenessListener, nonresponsiveReported>>

clientVars == <<isConnected, pandingAppCrash, successfulTestRun>>
crashVars == <<crashReturned, crashSinceGet, crashExpected, warned>>
timerVars == <<slowInvocationStatusHandler, timers, timerOwner, timerCounter>>
wsVars == <<wsState, inFlightPromises, messageIdCounter, wire>>
watchdogHistory == <<lateStatusQueries, firedWhileClosed>>
listenerVars == <<nonresponsivenessListener, nonresponsiveReported>>

\* ----------------------------------------------------------- error values
\* An error value: what was thrown, whether it is an Error object, and
\* whether its stack still holds frames of the client itself.
NoError == [message |-> "", isError |-> FALSE, internalFrames |-> FALSE]
\* errorDetails of a crash notice is a plain string.
CrashError(d) == [message |-> d, isError |-> FALSE, internalFrames |-> FALSE]
TransportError == [message |-> "transport", isError |-> TRUE, internalFrames |-> TRUE]
HandleError == [message |-> "appError", isError |-> TRUE, internalFrames |-> TRUE]
ProducerError == [message |-> "producer", isError |-> TRUE, internalFrames |-> TRUE]

asError(err) ==
  IF err.isError THEN err
  ELSE [message |-> err.message, isError |-> TRUE, internalFrames |-> TRUE]

removeInternalStackEntries(err) == [err EXCEPT !.internalFrames = FALSE]

Sanitized(err) == err.isError /\ ~err.internalFrames

\* ---------------------------------------------------------------- actions
\* new actions.X(params): a message kind, its params and its correlation id.
NewAction(type, params) ==
  [type |-> type, params |-> params, messageId |-> messageIdCounter]

\* What the app computes for an invocation with payload v.
AppResult(v) == v + 10

\* The reply the app gives to request r.
AppReply(r, kind) ==
  [messageId |-> r.messageId,
   type |-> IF kind = "ok" THEN r.type \o "Done" ELSE "error",
   params |-> IF r.type = "invoke" THEN AppResult(r.params) ELSE 0,
   to |-> r.from]

\* action.handle(parsedResponse): TRUE when it returns, FALSE when it throws.
HandleReturns(action, reply) == reply.type = action.type \o "Done"
HandleResult(action, reply) == reply.params

\* ------------------------------------------------------------------ calls
\* A call of a client method (or a run of the watchdog callback): what was
\* called with which argument, how it ended, and for cleanup() the state it
\* found when called and left when it finished.
NewCall(op, params) ==
  [op |-> op, params |-> params, status |-> "pending", sent |-> FALSE,
   value |-> 0, replyTo |-> 0, error |-> NoError, owner |-> 0,
   crashAtCall |-> op = "cleanup" /\ pandingAppCrash # None,
   connectedAtCall |-> op = "cleanup" /\ isConnected,
   openAtCall |-> op = "cleanup" /\ wsState = "open",
   failedBefore |-> FALSE, connectedAtEnd |-> FALSE, openAtEnd |-> FALSE,
   crashSeen |-> ""]

Resolved(call, v, to) == [call EXCEPT !.status = "resolved", !.value = v, !.replyTo = to]
Rejected(call, err) == [call EXCEPT !.status = "rejected", !.error = err]

\* History of an execute() that a crash notice rejected: crashSeen is
\* "latest" while no crash notice and no getPendingCrashAndReset() has come
\* since, "superseded" once a later crash notice came, "polled" once
\* getPendingCrashAndReset() was called.
ByCrash(call, err) ==
  IF call.op = "execute" /\ err.message \in CrashDetails
  THEN [call EXCEPT !.crashSeen = "latest"]
  ELSE call

Superseded(cs) ==
  [c \in DOMAIN cs |->
     IF cs[c].crashSeen = "latest" THEN [cs[c] EXCEPT !.crashSeen = "superseded"]
     ELSE cs[c]]

Polled(cs) ==
  [c \in DOMAIN cs |->
     IF cs[c].crashSeen \in {"latest", "superseded"}
     THEN [cs[c] EXCEPT !.crashSeen = "polled"]
     ELSE cs[c]]

\* A cleanup() call finishes with the client connected or not and the
\* channel open or not.
AtEnd(call, conn, open) ==
  IF call.op = "cleanup"
  THEN [call EXCEPT !.connectedAtEnd = conn, !.openAtEnd = open]
  ELSE call

CallIds == DOMAIN calls
NextCall == Len(calls) + 1
CanCall == Len(calls) < MaxCalls

isOpen == wsState = "open"

\* ------------------------------------------------------------- transport
\* The correlation id sendAction passes to ws.send.
SendIdShared(action) == 1

SendId(action) == action.messageId

\* ws.send(action, messageId): registers the pending promise under the id.
wsSend(ifp, action, c) ==
  [i \in DOMAIN ifp \cup {SendId(action)} |->
     IF i = SendId(action) THEN [message |-> action, owner |-> c] ELSE ifp[i]]

\* The request as the app receives it.
Request(action, c) ==
  [messageId |-> SendId(action), type |-> action.type, params |-> action.params,
   from |-> c]

\* A reply whose id has no pending promise is dropped by the transport, so
\* only the requests that can still be answered to someone are kept.
Answerable(w, ifp) == {r \in w : r.messageId \in DOMAIN ifp}

Owners(ifp) == {ifp[i].owner : i \in DOMAIN ifp}
EmptyInFlight == [i \in {} |-> 0]
Without(ifp, id) == [i \in DOMAIN ifp \ {id} |-> ifp[i]]

\* What the caller of a rejected sendAction ends with: execute() catches and
\* rethrows removeInternalStackEntries(asError(err)), every other method lets
\* the rejection through.
Caught(op, err) ==
  IF op = "execute" THEN removeInternalStackEntries(asError(err)) ELSE err

\* The calls after every pending promise of ifp was rejected with err and
\* the continuations of their owners ran; conn and open: the client is
\* connected and the channel is open when they run.
RejectOwners(cs, ifp, err, conn, open) ==
  [c \in DOMAIN cs |->
     IF c \in Owners(ifp) /\ cs[c].status = "pending"
     THEN ByCrash(AtEnd(Rejected(cs[c], Caught(cs[c].op, err)), conn, open), err)
     ELSE cs[c]]

\* Any rejected caller, of whatever method.
AnyCallRejected(cs, ifp) ==
  \E c \in Owners(ifp) : cs[c].status = "pending"

\* Some owner of a promise of ifp is an execute(): its catch and finally run.
ExecuteRejected(cs, ifp) ==
  \E c \in Owners(ifp) : cs[c].op = "execute" /\ cs[c].status = "pending"

clearTimeout(ts, handle) == ts \ {handle}

\* ws.rejectAll(err) and the continuations of the rejected callers.
rejectAll(cs, ifp, ts, err, conn, open) ==
  /\ inFlightPromises' = EmptyInFlight
  /\ wire' = Answerable(wire, EmptyInFlight)
  /\ calls' = RejectOwners(cs, ifp, err, conn, open)
  /\ successfulTestRun' =
       IF ExecuteRejected(cs, ifp) THEN FALSE ELSE successfulTestRun
  /\ timers' =
       IF ExecuteRejected(cs, ifp)
       THEN clearTimeout(ts, slowInvocationStatusHandler) ELSE ts

\* The channel goes down (ws.close(), or the peer drops it): every pending
\* promise rejects.
TearDown(cs, ifp, ts, conn) ==
  /\ wsState' = "closed"
  /\ rejectAll(cs, ifp, ts, TransportError, conn, FALSE)

\* ------------------------------------------------------------------ Init
Init ==
  /\ isConnected = FALSE
  /\ pandingAppCrash = None
  /\ successfulTestRun = TRUE
  /\ slowInvocationStatusHandler = 0
  /\ slowInvocationTimeout \in {0, 1}
  /\ wsState = "none"
  /\ inFlightPromises = EmptyInFlight
  /\ messageIdCounter = 1
  /\ wire = {}
  /\ timers = {}
  /\ timerOwner = [t \in {} |-> 0]
  /\ timerCounter = 0
  /\ calls = <<>>
  /\ crashReturned = None
  /\ crashSinceGet = None
  /\ crashExpected = None
  /\ lateStatusQueries = {}
  /\ warned = {}
  /\ firedWhileClosed = FALSE
  /\ nonresponsivenessListener = FALSE
  /\ nonresponsiveReported = None

\* ------------------------------------------------------- crash listener
\* The listener without its first statement (the detail is not stored).
AppCrashNotStored(d) ==
  /\ isOpen
  /\ crashSinceGet' = d
  /\ rejectAll(Superseded(calls), inFlightPromises, timers, CrashError(d),
               isConnected, TRUE)
  /\ UNCHANGED <<isConnected, pandingAppCrash, slowInvocationStatusHandler,
                 slowInvocationTimeout, wsState, messageIdCounter, timerOwner,
                 timerCounter, crashReturned, crashExpected, watchdogHistory,
                 listenerVars, warned>>

\* The AppWillTerminateWithError listener installed by the constructor.
AppCrash(d) ==
  /\ isOpen
  /\ pandingAppCrash' = d
  /\ crashSinceGet' = d
  /\ rejectAll(Superseded(calls), inFlightPromises, timers, CrashError(d),
               isConnected, TRUE)
  /\ UNCHANGED <<isConnected, slowInvocationStatusHandler, slowInvocationTimeout,
                 wsState, messageIdCounter, timerOwner, timerCounter,
                 crashReturned, crashExpected, watchdogHistory, listenerVars, warned>>

getPendingCrashNoReset ==
  /\ crashReturned' = pandingAppCrash
  /\ crashExpected' = crashSinceGet
  /\ crashSinceGet' = None
  /\ calls' = Polled(calls)
  /\ UNCHANGED <<clientVars, slowInvocationTimeout, watchdogHistory, listenerVars, warned>>
  /\ UNCHANGED <<timerVars, wsVars>>

getPendingCrashAndReset ==
  /\ crashReturned' = pandingAppCrash
  /\ pandingAppCrash' = None
  /\ crashExpected' = crashSinceGet
  /\ crashSinceGet' = None
  /\ calls' = Polled(calls)
  /\ UNCHANGED <<isConnected, successfulTestRun, slowInvocationTimeout,
                 watchdogHistory, listenerVars, warned>>
  /\ UNCHANGED <<timerVars, wsVars>>

\* ---------------------------------------------------------------- connect
connect ==
  /\ CanCall
  /\ wsState = "none"
  /\ wsState' = "opening"
  /\ calls' = Append(calls, NewCall("connect", 0))
  /\ UNCHANGED <<clientVars, crashVars, timerVars, slowInvocationTimeout,
                 inFlightPromises, messageIdCounter, wire, watchdogHistory, listenerVars>>

\* ----------------------------------------------------------- sendAction
\* Call c (already in cs) sends action over the open channel and awaits.
sendAction(cs, c, action) ==
  /\ inFlightPromises' = wsSend(inFlightPromises, action, c)
  /\ wire' = Answerable(wire \cup {Request(action, c)}, inFlightPromises')
  /\ messageIdCounter' = messageIdCounter + 1
  /\ calls' = [cs EXCEPT ![c].sent = TRUE]

\* ws.send on a channel that is not open rejects at once; call c ends with
\* what its method makes of the rejection.
sendFails(cs, c) ==
  /\ calls' = [cs EXCEPT ![c] = Rejected(cs[c], Caught(cs[c].op, TransportError))]
  /\ messageIdCounter' = messageIdCounter + 1
  /\ UNCHANGED <<inFlightPromises, wire>>

\* ws.open() resolved; connect() goes on to send the login action.
OpenDone ==
  /\ wsState = "opening"
  /\ wsState' = "open"
  /\ \E c \in CallIds :
       /\ calls[c].op = "connect" /\ calls[c].status = "pending" /\ ~calls[c].sent
       /\ sendAction(calls, c, NewAction("login", 0))
  /\ UNCHANGED <<clientVars, crashVars, timerVars, slowInvocationTimeout,
                 watchdogHistory, listenerVars>>

\* ws.open() failed; connect() rejects and no channel exists.
OpenFail ==
  /\ wsState = "opening"
  /\ wsState' = "closed"
  /\ \E c \in CallIds :
       /\ calls[c].op = "connect" /\ calls[c].status = "pending" /\ ~calls[c].sent
       /\ calls' = [calls EXCEPT ![c] = Rejected(calls[c], TransportError)]
  /\ UNCHANGED <<clientVars, crashVars, timerVars, slowInvocationTimeout,
                 inFlightPromises, messageIdCounter, wire, watchdogHistory, listenerVars>>

\* Callers call waitUntilReady() after connect() has succeeded.
waitUntilReady ==
  /\ CanCall
  /\ \E k \in CallIds : calls[k].op = "connect" /\ calls[k].status = "resolved"
  /\ LET cs == Append(calls, NewCall("waitUntilReady", 0)) IN
       IF isOpen THEN sendAction(cs, NextCall, NewAction("ready", 0))
       ELSE sendFails(cs, NextCall)
  /\ UNCHANGED <<clientVars, crashVars, timerVars, slowInvocationTimeout, wsState,
                 watchdogHistory, listenerVars>>

\* reloadReactNative, shake, setOrientation, ...: methods that only send.
\* Callers use them, like execute(), once waitUntilReady() has succeeded.
otherAction(type) ==
  /\ CanCall
  /\ isConnected
  /\ LET cs == Append(calls, NewCall("other", 0)) IN
       IF isOpen THEN sendAction(cs, NextCall, NewAction(type, 0))
       ELSE sendFails(cs, NextCall)
  /\ UNCHANGED <<clientVars, crashVars, timerVars, slowInvocationTimeout, wsState,
                 watchdogHistory, listenerVars>>

\* ---------------------------------------------------------------- execute
\* execute(invocation) up to its await.  mode says whether invocation is a
\* value, a producer that returns v, or a producer that throws.
execute(mode, v) ==
  /\ CanCall
  /\ isConnected
  /\ LET c == NextCall
         call == NewCall("execute", v)
         armed == slowInvocationTimeout # 0
         t == timerCounter + 1
         handler == IF armed THEN t ELSE slowInvocationStatusHandler
     IN
       IF mode = "producerThrows"
       THEN \* invocation() throws before the try block is entered
            /\ calls' = Append(calls, Rejected(call, ProducerError))
            /\ UNCHANGED <<clientVars, timerVars, wsVars>>
       ELSE /\ slowInvocationStatusHandler' = handler
            /\ timerCounter' = IF armed THEN t ELSE timerCounter
            /\ timerOwner' =
                 IF armed
                 THEN [x \in DOMAIN timerOwner \cup {t} |->
                         IF x = t THEN c ELSE timerOwner[x]]
                 ELSE timerOwner
            /\ IF isOpen
               THEN /\ sendAction(Append(calls, call), c, NewAction("invoke", v))
                    /\ timers' = IF armed THEN timers \cup {t} ELSE timers
                    /\ UNCHANGED successfulTestRun
               ELSE /\ sendFails(Append(calls, call), c)
                    /\ successfulTestRun' = FALSE
                    /\ timers' = clearTimeout(timers, handler)
            /\ UNCHANGED <<isConnected, pandingAppCrash, wsState>>
  /\ UNCHANGED <<crashVars, slowInvocationTimeout, watchdogHistory, listenerVars>>

\* --------------------------------------------------------------- watchdog
\* if (this.ws.isOpen())
watchdogQueriesUnguarded == TRUE

watchdogQueries == isOpen

\* The setTimeout callback of slowInvocationStatus() runs.
slowInvocationStatus(t) ==
  /\ t \in timers
  /\ isOpen => CanCall
  /\ timers' = timers \ {t}
  /\ IF watchdogQueries
     THEN LET call == [NewCall("watchdog", 0) EXCEPT !.owner = timerOwner[t]] IN
            /\ IF isOpen
               THEN sendAction(Append(calls, call), NextCall,
                               NewAction("currentStatus", 0))
               ELSE sendFails(Append(calls, call), NextCall)
            /\ lateStatusQueries' =
                 IF calls[timerOwner[t]].status # "pending"
                 THEN lateStatusQueries \cup {timerOwner[t]}
                 ELSE lateStatusQueries
     ELSE UNCHANGED <<inFlightPromises, wire, messageIdCounter, calls, lateStatusQueries>>
  /\ firedWhileClosed' = (firedWhileClosed \/ ~isOpen)
  /\ UNCHANGED <<clientVars, crashVars, slowInvocationStatusHandler, timerOwner,
                 timerCounter, slowInvocationTimeout, wsState, listenerVars>>

\* ---------------------------------------------------------------- cleanup
\* if (this.isConnected && !this.pandingAppCrash)
cleanupSendsDespiteCrash == isConnected

cleanupSends == isConnected /\ pandingAppCrash = None

\* if (this.ws.isOpen()) before ws.close()
cleanupClosesUnguarded == TRUE

cleanupCloses == isOpen

\* cleanup() from line 55 on: call (finished but for the close) closes the
\* channel if it is open.  ws.close() on a channel that is not open rejects.
cleanupClose(cs, c, ifp, ts, conn) ==
  IF cleanupCloses
  THEN IF isOpen
       THEN TearDown([cs EXCEPT ![c] = AtEnd([cs[c] EXCEPT !.status = "resolved"], conn, FALSE)],
                     ifp, ts, conn)
       ELSE /\ calls' = [cs EXCEPT ![c] = AtEnd(Rejected(cs[c], TransportError), conn, FALSE)]
            /\ inFlightPromises' = ifp
            /\ wire' = Answerable(wire, ifp)
            /\ timers' = ts
            /\ UNCHANGED <<successfulTestRun, wsState>>
  ELSE /\ calls' = [cs EXCEPT ![c] = AtEnd([cs[c] EXCEPT !.status = "resolved"], conn, isOpen)]
       /\ inFlightPromises' = ifp
       /\ wire' = Answerable(wire, ifp)
       /\ timers' = ts
       /\ UNCHANGED <<successfulTestRun, wsState>>

\* cleanup() up to its first await (or to its end when it sends nothing).
cleanup ==
  /\ CanCall
  /\ LET c == NextCall
         call == [NewCall("cleanup", IF successfulTestRun THEN 1 ELSE 0)
                    EXCEPT !.failedBefore =
                      \E k \in CallIds : calls[k].op = "execute"
                                         /\ calls[k].status = "rejected"]
         cleared == clearTimeout(timers, slowInvocationStatusHandler)
     IN
       IF cleanupSends /\ isOpen
       THEN /\ sendAction(Append(calls, call), c, NewAction("cleanup", call.params))
            /\ timers' = cleared
            /\ UNCHANGED <<isConnected, successfulTestRun, wsState>>
       ELSE /\ isConnected' = IF cleanupSends THEN FALSE ELSE isConnected
            /\ cleanupClose(Append(calls, call), c, inFlightPromises, cleared,
                            isConnected')
            /\ UNCHANGED messageIdCounter
  /\ UNCHANGED <<pandingAppCrash, crashVars, slowInvocationStatusHandler, timerOwner,
                 timerCounter, slowInvocationTimeout, watchdogHistory, listenerVars>>

\* The peer drops the channel.
ChannelDrop ==
  /\ isOpen
  /\ TearDown(calls, inFlightPromises, timers, isConnected)
  /\ UNCHANGED <<isConnected, pandingAppCrash, crashVars, slowInvocationStatusHandler,
                 timerOwner, timerCounter, slowInvocationTimeout, messageIdCounter,
                 watchdogHistory, listenerVars>>

\* ------------------------------------------------------------------ reply
\* The watchdog callback awaits currentStatus() and only then schedules the
\* next timer: it goes on when the status query was answered (ok), and ends
\* with the rejection otherwise.
watchdogNeverReschedules(ok) == FALSE

watchdogReschedules(ok) == ok

\* The app answers request r; the transport hands the reply to the promise
\* pending under the reply's id, and the owner's sendAction and method go on.
\* this.successfulTestRun after the caller's method saw its reply handled:
\* only the catch of execute() clears it.
RunAfterAnyFailure(op, ok) == successfulTestRun /\ ok

RunAfter(op, ok) ==
  IF op = "execute" /\ ~ok THEN FALSE ELSE successfulTestRun

Reply(r, kind) ==
  /\ isOpen
  /\ r \in wire
  /\ r.messageId \in DOMAIN inFlightPromises
  /\ LET reply == AppReply(r, kind)
         entry == inFlightPromises[reply.messageId]
         c == entry.owner
         op == calls[c].op
         ok == HandleReturns(entry.message, reply)
         rest == Without(inFlightPromises, reply.messageId)
         done == IF ok
                 THEN Resolved(calls[c], HandleResult(entry.message, reply), reply.to)
                 ELSE Rejected(calls[c], Caught(op, HandleError))
         t == timerCounter + 1
     IN
       CASE op = "execute" ->
              /\ calls' = [calls EXCEPT ![c] = done]
              /\ successfulTestRun' = RunAfter(op, ok)
              /\ timers' = clearTimeout(timers, slowInvocationStatusHandler)
              /\ inFlightPromises' = rest
              /\ wire' = Answerable(wire \ {r}, rest)
              /\ UNCHANGED <<isConnected, pandingAppCrash, wsState,
                             slowInvocationStatusHandler, timerOwner, timerCounter>>
         [] op = "waitUntilReady" ->
              /\ calls' = [calls EXCEPT ![c] = done]
              /\ isConnected' = IF ok THEN TRUE ELSE isConnected
              /\ successfulTestRun' = RunAfter(op, ok)
              /\ inFlightPromises' = rest
              /\ wire' = Answerable(wire \ {r}, rest)
              /\ UNCHANGED <<pandingAppCrash, wsState, timerVars>>
         [] op = "cleanup" ->
              IF ok
              THEN /\ isConnected' = FALSE
                   /\ cleanupClose([calls EXCEPT ![c] = done], c, rest, timers, FALSE)
                   /\ UNCHANGED <<pandingAppCrash, slowInvocationStatusHandler,
                                  timerOwner, timerCounter>>
              ELSE /\ calls' = [calls EXCEPT ![c] = AtEnd(done, isConnected, isOpen)]
                   /\ successfulTestRun' = RunAfter(op, ok)
                   /\ inFlightPromises' = rest
                   /\ wire' = Answerable(wire \ {r}, rest)
                   /\ UNCHANGED <<isConnected, pandingAppCrash, wsState, timerVars>>
         [] op = "watchdog" ->
              /\ calls' = [calls EXCEPT ![c] = done]
              /\ inFlightPromises' = rest
              /\ wire' = Answerable(wire \ {r}, rest)
              /\ IF watchdogReschedules(ok)
                 THEN /\ slowInvocationStatusHandler' = t
                      /\ timerCounter' = t
                      /\ timers' = timers \cup {t}
                      /\ timerOwner' =
                           [x \in DOMAIN timerOwner \cup {t} |->
                              IF x = t THEN calls[c].owner ELSE timerOwner[x]]
                 ELSE UNCHANGED timerVars
              /\ successfulTestRun' = RunAfter(op, ok)
              /\ UNCHANGED <<isConnected, pandingAppCrash, wsState>>
         [] OTHER ->
              /\ calls' = [calls EXCEPT ![c] = done]
              /\ successfulTestRun' = RunAfter(op, ok)
              /\ inFlightPromises' = rest
              /\ wire' = Answerable(wire \ {r}, rest)
              /\ UNCHANGED <<isConnected, pandingAppCrash, wsState, timerVars>>
  /\ UNCHANGED <<crashVars, slowInvocationTimeout, messageIdCounter, watchdogHistory, listenerVars>>

\* ------------------------------------------------------------ diagnostics
Listed(message) ==
  [messageId |-> message.messageId, type |-> message.type, params |-> message.params]

\* dumpPendingRequests() without the early return on an empty list.
dumpAlwaysResets ==
  LET messages == {m \in {inFlightPromises[i].message : i \in DOMAIN inFlightPromises} :
                     m.type # "currentStatus"}
  IN
    /\ warned' = IF messages = {} THEN warned ELSE {Listed(m) : m \in messages}
    /\ inFlightPromises' = EmptyInFlight
    /\ wire' = Answerable(wire, inFlightPromises')
    /\ UNCHANGED <<clientVars, timerVars, slowInvocationTimeout, wsState,
                   messageIdCounter, calls, crashReturned, crashSinceGet,
                   crashExpected, watchdogHistory, listenerVars>>

\* dumpPendingRequests() without the filter on the message type.
dumpEveryRequest ==
  LET messages == {inFlightPromises[i].message : i \in DOMAIN inFlightPromises}
  IN
    /\ IF messages = {}
       THEN UNCHANGED <<inFlightPromises, warned>>
       ELSE /\ warned' = {Listed(m) : m \in messages}
            /\ inFlightPromises' = EmptyInFlight
    /\ wire' = Answerable(wire, inFlightPromises')
    /\ UNCHANGED <<clientVars, timerVars, slowInvocationTimeout, wsState,
                   messageIdCounter, calls, crashReturned, crashSinceGet,
                   crashExpected, watchdogHistory, listenerVars>>

dumpPendingRequests ==
  LET messages == {m \in {inFlightPromises[i].message : i \in DOMAIN inFlightPromises} :
                     m.type # "currentStatus"}
  IN
    /\ IF messages = {}
       THEN UNCHANGED <<inFlightPromises, warned>>
       ELSE /\ warned' = {Listed(m) : m \in messages}
            /\ inFlightPromises' = EmptyInFlight
    /\ wire' = Answerable(wire, inFlightPromises')
    /\ UNCHANGED <<clientVars, timerVars, slowInvocationTimeout, wsState,
                   messageIdCounter, calls, crashReturned, crashSinceGet,
                   crashExpected, watchdogHistory, listenerVars>>

\* -------------------------------------------------------- nonresponsiveness
\* setNonresponsivenessListener(clientCallback): registers an event callback
\* under the id of the AppNonresponsive action.
setNonresponsivenessListener ==
  /\ nonresponsivenessListener' = TRUE
  /\ UNCHANGED <<clientVars, crashVars, timerVars, wsVars, slowInvocationTimeout,
                 calls, watchdogHistory, nonresponsiveReported>>

\* An AppNonresponsive notice arrives: the registered event callback parses
\* it and calls clientCallback(event.params).  Without a registered callback
\* the transport has nobody to hand the notice to.
AppNonresponsive(params) ==
  /\ isOpen
  /\ nonresponsivenessListener
  /\ nonresponsiveReported' = params
  /\ UNCHANGED <<clientVars, crashVars, timerVars, wsVars, slowInvocationTimeout,
                 calls, watchdogHistory, nonresponsivenessListener>>

\* ------------------------------------------------------------------ Next
\* The inputs of the parameterized actions.
otherActions == \E type \in OtherTypes : otherAction(type)
executes == \E mode \in ProducerModes, v \in Values : execute(mode, v)
TimerFires == \E t \in timers : slowInvocationStatus(t)
AppReplies == \E r \in wire, kind \in ReplyKinds : Reply(r, kind)
AppCrashes == \E d \in CrashDetails : AppCrash(d)
AppNonresponsives == \E params \in NonresponsiveParams : AppNonresponsive(params)

Next ==
  \/ connect
  \/ OpenDone
  \/ OpenFail
  \/ waitUntilReady
  \/ otherActions
  \/ executes
  \/ TimerFires
  \/ cleanup
  \/ ChannelDrop
  \/ AppReplies
  \/ AppCrashes
  \/ getPendingCrashAndReset
  \/ dumpPendingRequests

Spec == Init /\ [][Next]_vars

\* The client with a non-responsiveness listener: the event path next to the
\* request/response path of a session that connects, invokes and cleans up.
NextEvents ==
  \/ connect
  \/ OpenDone
  \/ OpenFail
  \/ otherActions
  \/ waitUntilReady
  \/ executes
  \/ TimerFires
  \/ cleanup
  \/ ChannelDrop
  \/ AppReplies
  \/ AppCrashes
  \/ dumpPendingRequests
  \/ setNonresponsivenessListener
  \/ AppNonresponsives

SpecEvents == Init /\ [][NextEvents]_vars

\* ================================================================ claims
CleanupCalls == {c \in CallIds : calls[c].op = "cleanup"}
ExecuteCalls == {c \in CallIds : calls[c].op = "execute"}
\* Call c has sent its action and still awaits the reply.
AwaitingReply(c) == calls[c].status = "pending" /\ calls[c].sent
Finished(c) == calls[c].status # "pending"

\* C1: when an app-crash notice is delivered, every request pending at that
\* moment (every execute or other sendAction still awaiting its reply) is
\* rejected with that crash's error detail.
C1_CrashRejectsEveryPending ==
  [][\A d \in CrashDetails :
       AppCrash(d) =>
         \A c \in CallIds :
           AwaitingReply(c) =>
             /\ calls'[c].status = "rejected"
             /\ calls'[c].error.message = d]_vars

C3_NoWatchdogAfterSettle ==
  Cardinality(ExecuteCalls) <= 1 =>
    /\ \A t \in timers : ~Finished(timerOwner[t])
    /\ lateStatusQueries = {}

\* C4: cleanup() called with the channel already closed, with a crash
\* pending, or with the client never connected does not throw, and the
\* channel is closed when it finishes.
C4_CleanupTolerates ==
  \A c \in CleanupCalls :
    (~calls[c].openAtCall \/ calls[c].crashAtCall \/ ~calls[c].connectedAtCall) =>
      /\ calls[c].status = "resolved"
      /\ ~calls[c].openAtEnd

\* One cleanup() found a crash pending on an open channel, a later one found
\* the channel already closed; both have finished.
C4_Witness ==
  \E c1, c2 \in CleanupCalls :
    /\ c1 < c2
    /\ calls[c1].crashAtCall /\ calls[c1].openAtCall /\ calls[c1].status = "resolved"
    /\ ~calls[c2].openAtCall /\ calls[c2].status = "resolved"
    /\ wsState = "closed"

\* C5: a cleanup() called with connected = true and no crash pending leaves
\* connected = false when it finishes, whatever the outcome of its send
\* (stated for a send that succeeds, is skipped, or is rejected by a crash
\* notice arriving while it is pending).
C5_CleanupDisconnects ==
  \A c \in CleanupCalls :
    /\ calls[c].connectedAtCall /\ ~calls[c].crashAtCall /\ Finished(c)
    /\ calls[c].status = "rejected" => calls[c].error.message \in CrashDetails
    => ~calls[c].connectedAtEnd

\* C6: whenever cleanup() finishes, also when its send failed, the channel
\* is closed.
C6_CleanupClosesChannel ==
  \A c \in CleanupCalls : Finished(c) => ~calls[c].openAtEnd

\* C7: a cleanup() invoked while a crash is pending sends no cleanup action
\* and finishes with the channel closed.
C7_CrashPendingSkipsSend ==
  \A c \in CleanupCalls :
    calls[c].crashAtCall =>
      /\ ~calls[c].sent
      /\ calls[c].status = "resolved"
      /\ ~calls[c].openAtEnd

\* connect, waitUntilReady, a crash notice during a pending execute, cleanup:
\* the execute is rejected with the crash detail, the cleanup sent nothing
\* and the channel is closed.
C7_Witness ==
  \E e \in ExecuteCalls, c \in CleanupCalls :
    /\ e < c
    /\ calls[e].status = "rejected"
    /\ calls[e].error.message \in CrashDetails
    /\ calls[e].error.message = pandingAppCrash
    /\ calls[c].crashAtCall /\ calls[c].openAtCall /\ calls[c].connectedAtCall
    /\ ~calls[c].sent
    /\ calls[c].status = "resolved"
    /\ wsState = "closed"

\* C8: the cleanup action is parameterized "successful" exactly when no
\* execute() call has failed before it is sent.
C8_CleanupFlagMatchesExecutes ==
  \A c \in CleanupCalls :
    calls[c].sent => (calls[c].params = 1 <=> ~calls[c].failedBefore)

\* C9: an execute() that resolves resolves with the action's result for the
\* value it was given or its producer returned; an execute() whose producer
\* threw is rejected with a sanitized error and the run is marked failed.
C9_ExecuteRoundTrip ==
  \A c \in ExecuteCalls :
    /\ calls[c].status = "resolved" => calls[c].value = AppResult(calls[c].params)
    /\ (calls[c].status = "rejected" /\ calls[c].error.message = ProducerError.message) =>
         /\ Sanitized(calls[c].error)
         /\ ~successfulTestRun

\* C10: a call that resolves has been given the reply to its own request,
\* whatever the order in which concurrent sends are answered.
C10_ReplyRoutedById ==
  \A c \in CallIds :
    (calls[c].status = "resolved" /\ calls[c].sent) => calls[c].replyTo = c

\* Two execute() calls were pending together and the later one was answered
\* first.
C10_Witness ==
  \E c1, c2 \in ExecuteCalls :
    /\ c1 < c2
    /\ AwaitingReply(c1)
    /\ c1 \in Owners(inFlightPromises)
    /\ calls[c2].status = "resolved"
    /\ calls[c2].replyTo = c2

\* C11: connected is true only after a ready handshake has succeeded, and
\* once a cleanup() has finished without throwing connected is false,
\* whether or not a crash was pending and the channel was open when it ran.
C11_ConnectedFalseAfterCleanup ==
  /\ isConnected =>
       \E k \in CallIds : calls[k].op = "waitUntilReady" /\ calls[k].status = "resolved"
  /\ \A c \in CleanupCalls : calls[c].status = "resolved" => ~calls[c].connectedAtEnd

\* The in-flight requests that are not status queries, as the dump lists them.
NonStatusInFlight ==
  {Listed(inFlightPromises[i].message) :
     i \in {j \in DOMAIN inFlightPromises :
              inFlightPromises[j].message.type # "currentStatus"}}

\* C12: a dumpPendingRequests() that finds a request other than a status
\* query in flight reports exactly the in-flight requests that are not
\* status queries (id, type and params of each), never a status query, and
\* leaves the transport's in-flight set empty.
C12_DumpListsNonStatusAndEmpties ==
  [][(dumpPendingRequests /\ NonStatusInFlight # {}) =>
       /\ warned' = NonStatusInFlight
       /\ \A m \in warned' : m.type # "currentStatus"
       /\ inFlightPromises' = EmptyInFlight]_vars

\* An invocation and a watchdog status query were in flight together when
\* the dump ran: the invocation alone was reported and both promises are
\* gone from the in-flight set.
C12_Witness ==
  /\ inFlightPromises = EmptyInFlight
  /\ \E e \in ExecuteCalls, w \in CallIds :
       /\ calls[w].op = "watchdog"
       /\ AwaitingReply(e) /\ AwaitingReply(w)
       /\ Cardinality(warned) = 1
       /\ \A m \in warned : m.type = "invoke" /\ m.params = calls[e].params

WatchdogCalls == {c \in CallIds : calls[c].op = "watchdog"}

\* C13 as stated: while an invocation is outstanding, the interval is not
\* zero and the channel is open, a watchdog that has fired and sent its
\* status query has its next timer scheduled, also while that status query
\* is unanswered.
C13_PollsWhileUnanswered ==
  \A w \in WatchdogCalls :
    (/\ AwaitingReply(w)
     /\ AwaitingReply(calls[w].owner)
     /\ isOpen
     /\ slowInvocationTimeout # 0)
    => timers # {}

\* C13, amended: a watchdog firing that finds the channel open sends one
\* current-status action and schedules nothing; the next timer is scheduled,
\* and its handle stored, when that status query is answered.
C13_ReschedulesOnStatusReply ==
  [][/\ \A t \in timers :
          (slowInvocationStatus(t) /\ isOpen) =>
            /\ timers' = timers \ {t}
            /\ Len(calls') = Len(calls) + 1
            /\ calls'[Len(calls')].op = "watchdog"
            /\ \E i \in DOMAIN inFlightPromises' \ DOMAIN inFlightPromises :
                 /\ inFlightPromises'[i].message.type = "currentStatus"
                 /\ inFlightPromises'[i].owner = Len(calls')
     /\ \A w \in WatchdogCalls :
          (calls[w].status = "pending" /\ calls'[w].status = "resolved") =>
            /\ slowInvocationStatusHandler' \in timers' \ timers
            /\ timerOwner'[slowInvocationStatusHandler'] = calls[w].owner]_vars

\* The status query of a watchdog firing was answered while the invocation
\* was still pending, and the next timer is scheduled.
C13_Witness ==
  \E w \in WatchdogCalls :
    /\ calls[w].status = "resolved"
    /\ AwaitingReply(calls[w].owner)
    /\ slowInvocationStatusHandler \in timers
    /\ timerOwner[slowInvocationStatusHandler] = calls[w].owner

WatchdogReplies ==
  \E r \in wire, kind \in ReplyKinds :
    /\ Reply(r, kind)
    /\ calls[inFlightPromises[r.messageId].owner].op = "watchdog"

C17_DumpNoOpWithoutRequests ==
  NonStatusInFlight = {} => ~ENABLED (dumpPendingRequests /\ vars' # vars)

\* Only a status query of the watchdog is in flight (the invocation it
\* watches was answered) and nothing has been logged.
C17_Witness ==
  /\ NonStatusInFlight = {}
  /\ DOMAIN inFlightPromises # {}
  /\ warned = {}
  /\ \E w \in WatchdogCalls : AwaitingReply(w) /\ w \in Owners(inFlightPromises)

\* C18: at most one watchdog timer is scheduled, the stored handle is that
\* timer's, and a timer is scheduled only while an interval is configured
\* and an execute() is pending, also when execute() calls overlap.
C18_SingleWatchdogTimer ==
  /\ Cardinality(timers) <= 1
  /\ timers \subseteq {slowInvocationStatusHandler}
  /\ timers # {} =>
       /\ slowInvocationTimeout # 0
       /\ \E e \in ExecuteCalls : calls[e].status = "pending"

\* The execute() calls a crash notice has rejected.
CrashRejected == {e \in ExecuteCalls : calls[e].crashSeen # ""}

\* C19 as stated: as long as getPendingCrashAndReset() has not been called
\* since a crash notice rejected an execute(), it would return the detail
\* that execute() was rejected with.
C19_CrashStoredForRejected ==
  \A e \in CrashRejected :
    calls[e].crashSeen \in {"latest", "superseded"} =>
      pandingAppCrash = calls[e].error.message

\* C19, amended: as long as neither getPendingCrashAndReset() has been
\* called nor a later crash notice has been delivered since a crash notice
\* rejected an execute(), getPendingCrashAndReset() would return the detail
\* that execute() was rejected with, and the execute() is rejected with an
\* error carrying it.
C19_LatestCrashStoredForRejected ==
  \A e \in CrashRejected :
    /\ calls[e].status = "rejected"
    /\ calls[e].error.message \in CrashDetails
    /\ calls[e].crashSeen = "latest" => pandingAppCrash = calls[e].error.message

\* A crash notice has rejected a pending execute() and nothing has happened
\* since: the detail it was rejected with is the one stored.
C19_Witness ==
  \E e \in CrashRejected :
    /\ calls[e].crashSeen = "latest"
    /\ calls[e].status = "rejected"
    /\ pandingAppCrash = calls[e].error.message
    /\ pandingAppCrash \in CrashDetails

\* C20: successfulTestRun is true at construction and changes only from
\* true to false, in a step in which an execute() call fails; a failure of
\* another action or a crash notice that rejects no execute() leaves it as
\* it is.
C20_RunFlagMonotone ==
  /\ successfulTestRun = TRUE
  /\ [][successfulTestRun' # successfulTestRun =>
          /\ successfulTestRun /\ ~successfulTestRun'
          /\ \E e \in DOMAIN calls' :
               /\ calls'[e].op = "execute"
               /\ calls'[e].status = "rejected"
               /\ e \in DOMAIN calls => calls[e].status = "pending"]_vars

\* A waitUntilReady() failed and left the flag alone (a cleanup sent after
\* it still reported success); a failing execute() then cleared it.
C20_Witness ==
  /\ ~successfulTestRun
  /\ \E w \in CallIds, e \in ExecuteCalls :
       /\ w < e
       /\ calls[w].op = "waitUntilReady" /\ calls[w].status = "rejected"
       /\ calls[e].status = "rejected"

====
